---- MODULE Spec2Model ----
(***************************************************************************)
(* Model of frappe's Scheduled Job Type                                    *)
(* (frappe/core/doctype/scheduled_job_type/scheduled_job_type.py):         *)
(* due-ness of a job from its cron expression, enqueue with a dedup check  *)
(* against the work queue, the run wrapper and its status log, and the     *)
(* sync of the registry with the scheduler_events hooks.                   *)
(*                                                                         *)
(* Timestamps are whole minutes counted from Monday 2024-01-01 00:00.      *)
(* A cron expression is the sequence of its whitespace-separated fields;   *)
(* a field is a record: [kind |-> "any"] for "*", [kind |-> "every", n]    *)
(* for "*/n", [kind |-> "at", v] for a number.                             *)
(***************************************************************************)
EXTENDS Integers, Sequences, FiniteSets, TLC

----------------------------------------------------------------------------
(* Bounds of the model *)

\* minutes the clock may advance past StartClock
Horizon == 3

\* runs (executions of run_scheduled_job) a behaviour may start
MaxRuns == 2

\* minutes that may pass after the first is_event_due() call
MaxElapse == 3

----------------------------------------------------------------------------
(* Calendar: minutes since 2024-01-01 00:00 (a Monday) *)

\* the absent timestamp (None)
NoTime == 0 - 1

MinutesPerDay == 24 * 60

At(day, hour, minute) == day * MinutesPerDay + hour * 60 + minute

MinuteOf(t) == t % 60
HourOf(t) == (t \div 60) % 24
DayOf(t) == t \div MinutesPerDay

\* days before the first day of each month, 2024 (leap) then 2025
MonthStarts ==
    <<0, 31, 60, 91, 121, 152, 182, 213, 244, 274, 305, 335,
      366, 397, 425, 456, 486, 517, 547, 578, 609, 639, 670, 700, 731>>

LastDay == MonthStarts[25] - 1

MonthIndex(d) == CHOOSE i \in 1..24 : MonthStarts[i] <= d /\ d < MonthStarts[i + 1]

MonthOf(d) == ((MonthIndex(d) - 1) % 12) + 1
DomOf(d) == d - MonthStarts[MonthIndex(d)] + 1
\* cron numbers the days of the week from Sunday = 0; day 0 is a Monday
DowOf(d) == (d + 1) % 7

----------------------------------------------------------------------------
(* Cron expressions (croniter) *)

Star == [kind |-> "any"]
Every(n) == [kind |-> "every", n |-> n]
Exactly(v) == [kind |-> "at", v |-> v]

\* lowest and highest value of the five fields: minute, hour, day of month,
\* month, day of week
FieldLow == <<0, 0, 1, 1, 0>>
FieldHigh == <<59, 23, 31, 12, 6>>

FieldValid(f, i) ==
    CASE f.kind = "any" -> TRUE
      [] f.kind = "every" -> f.n >= 1
      [] f.kind = "at" -> FieldLow[i] <= f.v /\ f.v <= FieldHigh[i]
      [] OTHER -> FALSE

\* croniter(expr) raises CroniterBadCronError unless this holds
CronValid(expr) ==
    /\ Len(expr) = 5
    /\ \A i \in 1..5 : FieldValid(expr[i], i)

Expand(f, i) ==
    CASE f.kind = "any" -> FieldLow[i]..FieldHigh[i]
      [] f.kind = "every" ->
            {v \in FieldLow[i]..FieldHigh[i] : (v - FieldLow[i]) % f.n = 0}
      [] f.kind = "at" -> {f.v}

MinOf(S) == CHOOSE x \in S : \A y \in S : x <= y

\* the day rule of cron: when both day fields are restricted a day matches
\* if either does
DayMatches(expr, d) ==
    /\ MonthOf(d) \in Expand(expr[4], 4)
    /\ LET domOk == DomOf(d) \in Expand(expr[3], 3)
           dowOk == DowOf(d) \in Expand(expr[5], 5)
       IN  CASE expr[3].kind = "any" -> dowOk
             [] expr[5].kind = "any" -> domOk
             [] OTHER -> domOk \/ dowOk

\* t is an occurrence of expr
Matches(expr, t) ==
    /\ MinuteOf(t) \in Expand(expr[1], 1)
    /\ HourOf(t) \in Expand(expr[2], 2)
    /\ DayMatches(expr, DayOf(t))

\* first matching day at or after d, NoTime past the calendar
RECURSIVE NextDay(_, _)
NextDay(expr, d) ==
    IF d > LastDay THEN NoTime
    ELSE IF MonthOf(d) \notin Expand(expr[4], 4)
         THEN NextDay(expr, MonthStarts[MonthIndex(d) + 1])
    ELSE IF DayMatches(expr, d) THEN d
    ELSE NextDay(expr, d + 1)

\* first matching minute of the day at or after minute-of-day m, NoTime if none
NextInDay(expr, m) ==
    LET hours == Expand(expr[2], 2)
        minutes == Expand(expr[1], 1)
        sameHour == {x \in minutes : x >= m % 60}
        later == {h \in hours : h > m \div 60}
    IN  IF (m \div 60) \in hours /\ sameHour # {}
        THEN (m \div 60) * 60 + MinOf(sameHour)
        ELSE IF later # {} THEN MinOf(later) * 60 + MinOf(minutes)
        ELSE NoTime

\* croniter(expr, start).get_next(): the first occurrence strictly after start
NextAfter(expr, start) ==
    LET t == start + 1
        d == DayOf(t)
        today == IF d <= LastDay /\ DayMatches(expr, d)
                 THEN NextInDay(expr, t % MinutesPerDay) ELSE NoTime
    IN  IF today # NoTime THEN d * MinutesPerDay + today
        ELSE LET nd == NextDay(expr, d + 1)
             IN  IF nd = NoTime THEN NoTime
                 ELSE nd * MinutesPerDay + NextInDay(expr, 0)

----------------------------------------------------------------------------
(* The site and its configuration *)

\* frappe.local.site of the site the scheduler runs for
Site == "site1.local"

\* the sites of a multitenant deployment
Sites == {"site1.local", "erp.example.com", "tenantA", "tenantB"}

\* hashlib.sha1(site.encode()).hexdigest(), as the values of its 40 digits
Sha1HexDigest(s) ==
    CASE s = "site1.local" ->
            <<1, 11, 13, 3, 14, 0, 2, 9, 4, 13, 10, 1, 9, 1, 9, 8, 1, 3, 11, 5,
              6, 8, 4, 7, 2, 8, 3, 11, 14, 6, 8, 1, 1, 2, 10, 0, 8, 8, 8, 10>>
      [] s = "erp.example.com" ->
            <<2, 2, 8, 3, 5, 9, 2, 9, 14, 7, 13, 5, 2, 12, 10, 15, 6, 3, 8, 15,
              13, 1, 11, 10, 6, 13, 0, 5, 2, 2, 4, 11, 12, 11, 13, 15, 15, 5, 0, 11>>
      [] s = "tenantA" ->
            <<3, 14, 3, 2, 12, 10, 0, 7, 12, 5, 14, 1, 13, 5, 12, 13, 0, 5, 0, 14,
              4, 0, 5, 4, 9, 14, 5, 9, 5, 5, 15, 0, 4, 10, 3, 9, 3, 5, 1, 14>>
      [] s = "tenantB" ->
            <<11, 0, 14, 14, 14, 3, 7, 11, 4, 10, 5, 7, 4, 5, 13, 7, 13, 6, 9, 10,
              8, 4, 6, 3, 5, 1, 5, 0, 5, 2, 15, 12, 6, 1, 10, 12, 1, 5, 3, 6>>

\* int(digits, 16) % m
RECURSIVE HexMod(_, _)
HexMod(digits, m) ==
    IF digits = <<>> THEN 0
    ELSE (HexMod(SubSeq(digits, 1, Len(digits) - 1), m) * 16
            + digits[Len(digits)]) % m

\* int(hashlib.sha1(site.encode()).hexdigest(), 16) % 60
Sha1Mod60(s) == HexMod(Sha1HexDigest(s), 60)

HourlySiteOffset(s) == Sha1Mod60(s)

\* mutant: the daily offset is the hourly one
DailySiteOffsetSame(s) == HourlySiteOffset(s)

DailySiteOffset(s) == (HourlySiteOffset(s) + 30) % 60

\* frappe.get_conf().scheduler_interval or 240; 0 stands for an unset value
DefaultInterval == 240
EffectiveInterval(interval) == IF interval = 0 THEN DefaultInterval ELSE interval

Frequencies ==
    {"All", "Hourly", "Hourly Long", "Hourly Maintenance", "Daily", "Daily Long",
     "Daily Maintenance", "Weekly", "Weekly Long", "Monthly", "Monthly Long",
     "Cron", "Yearly", "Annual"}

\* CRON_MAP.get(frequency); <<>> stands for None
CronMap(frequency, s, interval) ==
    CASE frequency \in {"Yearly", "Annual"} ->
            <<Exactly(0), Exactly(0), Exactly(1), Exactly(1), Star>>
      [] frequency \in {"Monthly", "Monthly Long"} ->
            <<Exactly(0), Exactly(0), Exactly(1), Star, Star>>
      [] frequency \in {"Weekly", "Weekly Long"} ->
            <<Exactly(0), Exactly(0), Star, Star, Exactly(0)>>
      [] frequency \in {"Daily", "Daily Long"} ->
            <<Exactly(0), Exactly(0), Star, Star, Star>>
      [] frequency = "Daily Maintenance" ->
            <<Exactly(DailySiteOffset(s)), Exactly(0), Star, Star, Star>>
      [] frequency \in {"Hourly", "Hourly Long"} ->
            <<Exactly(0), Star, Star, Star, Star>>
      [] frequency = "Hourly Maintenance" ->
            <<Exactly(HourlySiteOffset(s)), Star, Star, Star, Star>>
      [] frequency = "All" ->
            <<Every(EffectiveInterval(interval) \div 60), Star, Star, Star, Star>>
      [] OTHER -> <<>>

----------------------------------------------------------------------------
(* Scheduled Job Type documents *)

\* a method is the sequence of its dotted segments
Method1 == <<"app", "tasks", "ping">>

Methods == {Method1}

\* autoname: ".".join(method.split(".")[-2:])
Autoname(method) ==
    IF Len(method) <= 2 THEN method ELSE SubSeq(method, Len(method) - 1, Len(method))

\* rq_job_id: "scheduled_job::" + method
RqJobId(method) == <<"scheduled_job::">> \o method

\* get_queue_name
GetQueueName(frequency) ==
    IF frequency \in {"Hourly Long", "Daily Long", "Weekly Long", "Monthly Long",
                      "Hourly Maintenance", "Daily Maintenance"}
    THEN "long" ELSE "default"

\* validate: logging is forced for every frequency but All
ValidateCreateLog(doc) == IF doc.frequency # "All" THEN 1 ELSE doc.create_log

\* the expression get_next_execution evaluates, which it also caches on the
\* in-memory document
ResolvedCron(doc, site, interval) ==
    IF doc.cron_format = <<>> THEN CronMap(doc.frequency, site, interval)
    ELSE doc.cron_format

\* mutant: the anchor is always the creation time
GetNextExecutionFromCreation(doc, site, interval) ==
    LET expr == ResolvedCron(doc, site, interval)
    IN  IF CronValid(expr) THEN NextAfter(expr, doc.creation) ELSE NoTime

\* get_next_execution; NoTime when croniter raises
GetNextExecution(doc, site, interval) ==
    LET expr == ResolvedCron(doc, site, interval)
        anchor == IF doc.last_execution # NoTime THEN doc.last_execution
                  ELSE doc.creation
    IN  IF CronValid(expr) THEN NextAfter(expr, anchor) ELSE NoTime

\* mutant: the anchor is the current time
IsEventDueAnchoredNow(doc, site, interval, now) ==
    NextAfter(ResolvedCron(doc, site, interval), now) <= now

\* is_event_due
IsEventDue(doc, site, interval, now) ==
    GetNextExecution(doc, site, interval) <= now

----------------------------------------------------------------------------
(* State *)

Ticks == {"tick1", "tick2"}
Workers == {"worker1"}

VARIABLES
    site,               \* frappe.local.site
    scheduler_events,   \* frappe.get_hooks("scheduler_events"), flattened
    lastSync,           \* the last sync_jobs() call, if nothing was written since
    syncer,             \* the sync_jobs() calls that run side by side
    clock,              \* now_datetime(), in minutes
    maintenance_mode,   \* frappe.conf.maintenance_mode
    scheduler_interval, \* frappe.get_conf().scheduler_interval, 0 when unset
    db,                 \* committed Scheduled Job Type rows, by name
    logs,               \* committed Scheduled Job Log rows, by id
    appdata,            \* committed writes of the runnables
    queue,              \* RQ jobs waiting, oldest first
    submitted,          \* per method, when enqueue() last submitted it
    tick,               \* each scheduler tick's position in enqueue()
    lastCall,           \* the last enqueue() or is_event_due() call that returned
    raced,              \* a dedup check passed while another call was about to submit
    worker,             \* each worker's position in run_scheduled_job()
    runs                \* runs started so far

vars == <<site, scheduler_events, lastSync, syncer, clock, maintenance_mode, scheduler_interval, db, logs, appdata, queue,
          submitted, tick, lastCall, raced, worker, runs>>

StartClock == At(0, 0, 57)
CreationTime == At(0, 0, 55)

NewDoc(method, frequency, cron_format, create_log, stopped, creation) ==
    [method |-> method, frequency |-> frequency, cron_format |-> cron_format,
     last_execution |-> NoTime, creation |-> creation,
     create_log |-> create_log, stopped |-> stopped,
     server_script |-> "", scheduler_event |-> ""]

BlankDoc == NewDoc(<<>>, "", <<>>, 0, 0, NoTime)

NoEntry == [job_id |-> <<>>, method |-> <<>>, lane |-> ""]

IdleTick == [pc |-> "idle", doc |-> BlankDoc, force |-> FALSE]
IdleWorker == [pc |-> "idle", doc |-> BlankDoc, log |-> 0, entry |-> NoEntry,
               pending |-> 0, ret |-> "none"]
NoCall == [method |-> <<>>, force |-> FALSE, ret |-> "none"]
Syncers == {"sync1", "sync2"}
IdleSyncer == [pc |-> "idle", k |-> 1, stale |-> {}]
NoSyncer == [proc |-> [p \in Syncers |-> IdleSyncer], both |-> {}]
NoSync == [ran |-> FALSE, again |-> FALSE, writes |-> 0, raised |-> FALSE]

\* the documents a site may hold when the scheduler starts
InitDocs ==
    {NewDoc(Method1, "All", <<>>, 0, 0, CreationTime),
     NewDoc(Method1, "All", <<>>, 1, 0, CreationTime),
     NewDoc(Method1, "Cron", <<Every(3), Star, Star, Star, Star>>, 1, 1, CreationTime),
     NewDoc(Method1, "Hourly", <<>>, 1, 0, CreationTime)}

\* the configured scheduler_interval: unset, or two minutes
InitIntervals == {0, 2 * 60}

Init ==
    /\ site = Site
    /\ scheduler_events = <<>>
    /\ lastSync = NoSync
    /\ syncer = NoSyncer
    /\ clock = StartClock
    /\ maintenance_mode = FALSE
    /\ \E d \in InitDocs :
         /\ db = (Autoname(d.method) :> d)
         /\ scheduler_interval \in IF d.frequency = "All" /\ d.create_log = 0
                                   THEN InitIntervals ELSE {0}
    /\ logs = <<>>
    /\ appdata = 0
    /\ queue = <<>>
    /\ submitted = [m \in Methods |-> NoTime]
    /\ tick = [t \in Ticks |-> IdleTick]
    /\ lastCall = NoCall
    /\ raced = FALSE
    /\ worker = [w \in Workers |-> IdleWorker]
    /\ runs = 0

----------------------------------------------------------------------------
(* The work queue (frappe.utils.background_jobs over RQ) *)

\* is_job_enqueued(job_id): an RQ job with this id is queued or started
IsJobEnqueued(job_id) ==
    \/ \E i \in 1..Len(queue) : queue[i].job_id = job_id
    \/ \E w \in Workers : worker[w].pc # "idle" /\ worker[w].entry.job_id = job_id

\* mutant: the dedup check never finds the job
IsJobInQueueNever(doc) == FALSE

\* is_job_in_queue
IsJobInQueue(doc) == IsJobEnqueued(RqJobId(doc.method))

\* RQ jobs in flight (queued or started) for a job id
InFlight(job_id) ==
    Cardinality({i \in 1..Len(queue) : queue[i].job_id = job_id})
    + Cardinality({w \in Workers :
                     worker[w].pc # "idle" /\ worker[w].entry.job_id = job_id})

\* enqueue(run_scheduled_job, queue=..., job_type=method, job_id=rq_job_id)
Submission(doc) ==
    [job_id |-> RqJobId(doc.method), method |-> doc.method,
     lane |-> GetQueueName(doc.frequency)]

RemoveAt(q, i) == SubSeq(q, 1, i - 1) \o SubSeq(q, i + 1, Len(q))

\* the oldest waiting job of some lane
IsHead(i) ==
    /\ i \in 1..Len(queue)
    /\ \A k \in 1..(i - 1) : queue[k].lane # queue[i].lane

----------------------------------------------------------------------------
(* ScheduledJobType.enqueue, as the steps a concurrent tick takes *)

\* the document as get_next_execution leaves it in memory
Loaded(n) ==
    [db[n] EXCEPT !.cron_format = ResolvedCron(db[n], site, scheduler_interval)]

Returned(t, doc, force, ret) ==
    /\ tick' = [tick EXCEPT ![t] = IdleTick]
    /\ lastCall' = [method |-> doc.method, force |-> force, ret |-> ret]

\* what a tick keeps of the document between the steps of enqueue()
Kept(doc) ==
    [BlankDoc EXCEPT !.method = doc.method, !.frequency = doc.frequency]

\* is_event_due() or force, on the row as committed now
EnqueueIsDue(t, n, force) ==
    /\ tick[t].pc = "idle"
    /\ n \in DOMAIN db
    /\ LET next == GetNextExecution(db[n], site, scheduler_interval)
       IN  IF next = NoTime
           THEN Returned(t, db[n], force, "raised")
           ELSE IF next <= clock \/ force
           THEN /\ tick' = [tick EXCEPT ![t] =
                       [pc |-> "due", doc |-> Kept(Loaded(n)), force |-> force]]
                /\ lastCall' = NoCall
           ELSE Returned(t, db[n], force, "False")
    /\ UNCHANGED <<site, scheduler_events, lastSync, syncer, clock, maintenance_mode, scheduler_interval, db, logs, appdata,
                   queue, submitted, worker, runs, raced>>

\* the ticks between the dedup check and the submission of a method
AboutToSubmit(method) ==
    {u \in Ticks : tick[u].pc = "submit" /\ tick[u].doc.method = method}

\* if not self.is_job_in_queue()
EnqueueCheckQueue(t) ==
    /\ tick[t].pc = "due"
    /\ IF IsJobInQueue(tick[t].doc)
       THEN Returned(t, tick[t].doc, tick[t].force, "False")
       ELSE /\ tick' = [tick EXCEPT ![t].pc = "submit"]
            /\ lastCall' = NoCall
    /\ raced' = (raced \/ (~IsJobInQueue(tick[t].doc)
                              /\ AboutToSubmit(tick[t].doc.method) # {}))
    /\ UNCHANGED <<site, scheduler_events, lastSync, syncer, clock, maintenance_mode, scheduler_interval, db, logs, appdata,
                   queue, submitted, worker, runs>>

\* enqueue(...); return True
EnqueueSubmit(t) ==
    /\ tick[t].pc = "submit"
    /\ queue' = Append(queue, Submission(tick[t].doc))
    /\ submitted' = [submitted EXCEPT ![tick[t].doc.method] = clock]
    /\ Returned(t, tick[t].doc, tick[t].force, "True")
    /\ UNCHANGED <<site, scheduler_events, lastSync, syncer, clock, maintenance_mode, scheduler_interval, db, logs, appdata,
                   worker, runs, raced>>

\* mutant: force is recorded but does not override due-ness
EnqueueCallDueOnly(t, n, force) ==
    /\ \A u \in Ticks : tick[u].pc = "idle"
    /\ n \in DOMAIN db
    /\ LET next == GetNextExecution(db[n], site, scheduler_interval)
           doc == Loaded(n)
       IN  IF next = NoTime
           THEN Returned(t, doc, force, "raised") /\ UNCHANGED <<queue, submitted>>
           ELSE IF next <= clock /\ ~IsJobInQueue(doc)
           THEN /\ queue' = Append(queue, Submission(doc))
                /\ submitted' = [submitted EXCEPT ![doc.method] = clock]
                /\ Returned(t, doc, force, "True")
           ELSE Returned(t, doc, force, "False") /\ UNCHANGED <<queue, submitted>>
    /\ UNCHANGED <<site, scheduler_events, lastSync, syncer, clock, maintenance_mode, scheduler_interval, db, logs, appdata,
                   worker, runs, raced>>

(* ScheduledJobType.enqueue as one call, no other tick in between *)
EnqueueCall(t, n, force) ==
    /\ \A u \in Ticks : tick[u].pc = "idle"
    /\ n \in DOMAIN db
    /\ LET next == GetNextExecution(db[n], site, scheduler_interval)
           doc == Loaded(n)
       IN  IF next = NoTime
           THEN Returned(t, doc, force, "raised") /\ UNCHANGED <<queue, submitted>>
           ELSE IF next <= clock \/ force
           THEN IF ~IsJobInQueue(doc)
                THEN /\ queue' = Append(queue, Submission(doc))
                     /\ submitted' = [submitted EXCEPT ![doc.method] = clock]
                     /\ Returned(t, doc, force, "True")
                ELSE Returned(t, doc, force, "False") /\ UNCHANGED <<queue, submitted>>
           ELSE Returned(t, doc, force, "False") /\ UNCHANGED <<queue, submitted>>
    /\ UNCHANGED <<site, scheduler_events, lastSync, syncer, clock, maintenance_mode, scheduler_interval, db, logs, appdata,
                   worker, runs, raced>>

----------------------------------------------------------------------------
(* run_scheduled_job and ScheduledJobType.execute *)

\* Document.db_set: an UPDATE of the row, which may be gone
DbSetLastExecution(rows, name, now) ==
    IF name \in DOMAIN rows THEN [rows EXCEPT ![name].last_execution = now]
    ELSE rows

\* mutant: last_execution is written only on the path without a log
LogStatusDbOnlyWithoutLog(rows, doc, status, now) ==
    IF doc.create_log = 0
    THEN DbSetLastExecution(rows, Autoname(doc.method), now)
    ELSE rows

\* update_scheduler_log(status): the job rows it leaves committed
LogStatusDb(rows, doc, status, now) ==
    IF doc.create_log = 0
    THEN DbSetLastExecution(rows, Autoname(doc.method), now)
    ELSE IF status = "Start"
         THEN DbSetLastExecution(rows, Autoname(doc.method), now)
         ELSE rows

\* mutant: the traceback of a failed run is not stored
LogStatusLogsNoDetails(rows, doc, handle, fresh, status) ==
    IF doc.create_log = 0 THEN rows
    ELSE LET id == IF handle = 0 THEN fresh ELSE handle
             inserted ==
                 IF handle = 0
                 THEN rows @@ (fresh :> [scheduled_job_type |-> Autoname(doc.method),
                                         status |-> "Scheduled", details |-> ""])
                 ELSE rows
         IN  IF id \in DOMAIN inserted
             THEN [inserted EXCEPT ![id].status = status]
             ELSE inserted

\* mutant: every status is written to a log row of its own
LogStatusLogsNewRowEachStatus(rows, doc, handle, fresh, status) ==
    IF doc.create_log = 0 THEN rows
    ELSE rows @@ (fresh :> [scheduled_job_type |-> Autoname(doc.method),
                            status |-> status,
                            details |-> IF status = "Failed" THEN "traceback"
                                        ELSE ""])

\* update_scheduler_log(status): the log rows it leaves committed; handle is
\* self.scheduler_log (0 when None), fresh the id of a row it may insert
LogStatusLogs(rows, doc, handle, fresh, status) ==
    IF doc.create_log = 0 THEN rows
    ELSE LET id == IF handle = 0 THEN fresh ELSE handle
             inserted ==
                 IF handle = 0
                 THEN rows @@ (fresh :> [scheduled_job_type |-> Autoname(doc.method),
                                         status |-> "Scheduled", details |-> ""])
                 ELSE rows
         IN  IF id \in DOMAIN inserted
             THEN [inserted EXCEPT
                     ![id].status = status,
                     ![id].details = IF status = "Failed" THEN "traceback" ELSE @]
             ELSE inserted

\* self.scheduler_log after update_scheduler_log
LogStatusHandle(doc, handle, fresh) ==
    IF doc.create_log = 0 THEN handle
    ELSE IF handle = 0 THEN fresh ELSE handle

\* frappe.get_doc("Scheduled Job Type", dict(method=job_type))
DocsOfMethod(method) == {n \in DOMAIN db : db[n].method = method}

\* what execute() reads of the document it runs on
KeptByRun(doc) ==
    [BlankDoc EXCEPT !.method = doc.method, !.create_log = doc.create_log,
                     !.server_script = doc.server_script]

\* mutant: the maintenance mode guard is missing
NeverInMaintenanceMode == FALSE

\* if frappe.conf.maintenance_mode
InMaintenanceMode == maintenance_mode

\* maintenance mode: raise InReadOnlyMode before anything else
RunRefused(w, i) ==
    /\ worker[w].pc = "idle"
    /\ IsHead(i)
    /\ InMaintenanceMode
    /\ queue' = RemoveAt(queue, i)
    /\ worker' = [worker EXCEPT ![w] = [IdleWorker EXCEPT !.ret = "InReadOnlyMode"]]
    /\ lastCall' = NoCall
    /\ UNCHANGED <<site, scheduler_events, lastSync, syncer, clock, maintenance_mode, scheduler_interval, db, logs, appdata,
                   submitted, tick, runs, raced>>

\* get_doc raises DoesNotExistError, which run_scheduled_job prints
RunMissing(w, i) ==
    /\ worker[w].pc = "idle"
    /\ IsHead(i)
    /\ ~InMaintenanceMode
    /\ DocsOfMethod(queue[i].method) = {}
    /\ queue' = RemoveAt(queue, i)
    /\ worker' = [worker EXCEPT ![w] = [IdleWorker EXCEPT !.ret = "returned"]]
    /\ lastCall' = NoCall
    /\ UNCHANGED <<site, scheduler_events, lastSync, syncer, clock, maintenance_mode, scheduler_interval, db, logs, appdata,
                   submitted, tick, runs, raced>>

\* execute(): self.scheduler_log = None; self.log_status("Start")
RunStart(w, i) ==
    /\ worker[w].pc = "idle"
    /\ IsHead(i)
    /\ ~InMaintenanceMode
    /\ runs < MaxRuns
    /\ \E n \in DocsOfMethod(queue[i].method) :
         LET doc == KeptByRun(db[n])
         IN  /\ db' = LogStatusDb(db, doc, "Start", clock)
             /\ logs' = LogStatusLogs(logs, doc, 0, runs + 1, "Start")
             /\ worker' = [worker EXCEPT ![w] =
                    [pc |-> "started", doc |-> doc,
                     log |-> LogStatusHandle(doc, 0, runs + 1),
                     entry |-> queue[i], pending |-> 0, ret |-> "none"]]
    /\ queue' = RemoveAt(queue, i)
    /\ runs' = runs + 1
    /\ lastCall' = NoCall
    /\ UNCHANGED <<site, scheduler_events, lastSync, syncer, clock, maintenance_mode, scheduler_interval, appdata, submitted,
                   tick, raced>>

\* the runnable writes, without committing
RunWrite(w) ==
    /\ worker[w].pc = "started"
    /\ worker[w].pending = 0
    /\ worker' = [worker EXCEPT ![w].pending = 1]
    /\ UNCHANGED <<site, scheduler_events, lastSync, syncer, clock, maintenance_mode, scheduler_interval, db, logs, appdata,
                   queue, submitted, tick, runs, raced>>
    /\ lastCall' = NoCall

\* the runnable returns: frappe.db.commit()
RunReturns(w) ==
    /\ worker[w].pc = "started"
    /\ appdata' = appdata + worker[w].pending
    /\ worker' = [worker EXCEPT ![w].pc = "ran", ![w].pending = 0]
    /\ UNCHANGED <<site, scheduler_events, lastSync, syncer, clock, maintenance_mode, scheduler_interval, db, logs, queue,
                   submitted, tick, runs, raced>>
    /\ lastCall' = NoCall

\* the runnable raises: except Exception: frappe.db.rollback()
RunRaises(w) ==
    /\ worker[w].pc = "started"
    /\ worker' = [worker EXCEPT ![w].pc = "raised", ![w].pending = 0]
    /\ UNCHANGED <<site, scheduler_events, lastSync, syncer, clock, maintenance_mode, scheduler_interval, db, logs, appdata,
                   queue, submitted, tick, runs, raced>>
    /\ lastCall' = NoCall

\* self.log_status("Complete") or self.log_status("Failed"); the RQ job ends
RunEnd(w) ==
    /\ worker[w].pc \in {"ran", "raised"}
    /\ LET status == IF worker[w].pc = "ran" THEN "Complete" ELSE "Failed"
           doc == worker[w].doc
       IN  /\ db' = LogStatusDb(db, doc, status, clock)
           /\ logs' = LogStatusLogs(logs, doc, worker[w].log, runs + 1, status)
    /\ worker' = [worker EXCEPT ![w] = [IdleWorker EXCEPT !.ret = "returned"]]
    /\ lastCall' = NoCall
    /\ UNCHANGED <<site, scheduler_events, lastSync, syncer, clock, maintenance_mode, scheduler_interval, appdata, queue,
                   submitted, tick, runs, raced>>

----------------------------------------------------------------------------
(* The environment *)

AdvanceClock ==
    /\ clock < StartClock + Horizon
    /\ clock' = clock + 1
    /\ UNCHANGED <<site, scheduler_events, lastSync, syncer, maintenance_mode, scheduler_interval, db, logs, appdata, queue,
                   submitted, tick, lastCall, worker, runs, raced>>

SetMaintenanceMode(on) ==
    /\ maintenance_mode # on
    /\ maintenance_mode' = on
    /\ UNCHANGED <<site, scheduler_events, lastSync, syncer, clock, scheduler_interval, db, logs, appdata, queue, submitted,
                   tick, worker, runs, raced>>
    /\ lastCall' = NoCall

\* frappe.delete_doc: on_trash deletes the job's logs, then the row goes
DeleteJob(n) ==
    /\ n \in DOMAIN db
    /\ logs' = [id \in {k \in DOMAIN logs : logs[k].scheduled_job_type # n}
                  |-> logs[id]]
    /\ db' = [m \in DOMAIN db \ {n} |-> db[m]]
    /\ lastCall' = NoCall
    /\ UNCHANGED <<site, scheduler_events, lastSync, syncer, clock, maintenance_mode, scheduler_interval, appdata, queue,
                   submitted, tick, worker, runs, raced>>

----------------------------------------------------------------------------
(* Specifications *)

\* execute(), from its first step to its last
Execute ==
    \/ \E w \in Workers, i \in 1..Len(queue) : RunStart(w, i)
    \/ \E w \in Workers : RunWrite(w) \/ RunReturns(w) \/ RunRaises(w) \/ RunEnd(w)

Run ==
    \/ \E w \in Workers, i \in 1..Len(queue) : RunRefused(w, i)
    \/ \E w \in Workers, i \in 1..Len(queue) : RunMissing(w, i)
    \/ Execute

Environment ==
    \/ AdvanceClock
    \/ \E on \in BOOLEAN : SetMaintenanceMode(on)
    \/ \E n \in DOMAIN db : DeleteJob(n)

\* one tick at a time: each enqueue() call runs to its return
Next ==
    \/ \E t \in Ticks, n \in DOMAIN db, force \in BOOLEAN : EnqueueCall(t, n, force)
    \/ Run
    \/ Environment

Spec == Init /\ [][Next]_vars

\* concurrent ticks: the steps of enqueue() interleave, on a site that is out
\* of maintenance mode and keeps its jobs
NextRace ==
    \/ \E t \in Ticks, n \in DOMAIN db : EnqueueIsDue(t, n, FALSE)
    \/ \E t \in Ticks : EnqueueCheckQueue(t) \/ EnqueueSubmit(t)
    \/ Execute
    \/ AdvanceClock

SpecRace == Init /\ [][NextRace]_vars

----------------------------------------------------------------------------
(* is_event_due on its own: jobs of several frequencies, read at times up to a
   day after their creation *)

DueCreations == {At(0, 0, 30), At(0, 22, 50)}

\* the times of the first is_event_due() call
DueNows == {At(0, 22, 58), At(0, 23, 27), At(0, 23, 58), At(1, 0, 27)}

DueFrequencies ==
    {"All", "Hourly", "Hourly Maintenance", "Daily", "Daily Maintenance", "Cron"}

\* the configured scheduler_interval, in seconds: unset, half a minute, a
\* minute and a half, two minutes
DueIntervals == {0, 30, 90, 2 * 60}

\* the rows is_event_due() is called on: never run, or last run at 22:56
DueDocs ==
    {[NewDoc(Method1, f, IF f = "Cron" THEN <<Every(3), Star, Star, Star, Star>>
                         ELSE <<>>,
             1, 0, c) EXCEPT !.last_execution = l] :
        f \in DueFrequencies, c \in DueCreations, l \in {NoTime, At(0, 22, 56)}}

InitDue ==
    /\ scheduler_events = <<>>
    /\ lastSync = NoSync
    /\ syncer = NoSyncer
    /\ clock \in DueNows
    /\ maintenance_mode = FALSE
    /\ \E d \in DueDocs :
         /\ d.last_execution = NoTime \/ d.creation <= d.last_execution
         /\ db = (Autoname(d.method) :> d)
         /\ scheduler_interval \in IF d.frequency = "All" THEN DueIntervals ELSE {0}
         /\ site \in IF d.frequency \in {"Hourly Maintenance", "Daily Maintenance"}
                     THEN Sites ELSE {Site}
    /\ logs = <<>>
    /\ appdata = 0
    /\ queue = <<>>
    /\ submitted = [m \in Methods |-> NoTime]
    /\ tick = [t \in Ticks |-> IdleTick]
    /\ lastCall = NoCall
    /\ raced = FALSE
    /\ worker = [w \in Workers |-> IdleWorker]
    /\ runs = 0

\* doc.is_event_due(); it raises when croniter does
IsEventDueCall(n) ==
    /\ n \in DOMAIN db
    /\ lastCall' = [method |-> db[n].method, force |-> FALSE,
                    ret |-> IF GetNextExecution(db[n], site, scheduler_interval) = NoTime
                            THEN "raised"
                            ELSE IF IsEventDue(db[n], site, scheduler_interval, clock)
                            THEN "due" ELSE "not due"]
    /\ UNCHANGED <<site, scheduler_events, lastSync, syncer, clock, maintenance_mode, scheduler_interval, db, logs, appdata,
                   queue, submitted, tick, worker, runs, raced>>

\* time passes, a minute at a time
Elapse ==
    /\ \E first \in DueNows : first <= clock /\ clock < first + MaxElapse
    /\ clock' = clock + 1
    /\ lastCall' = NoCall
    /\ UNCHANGED <<site, scheduler_events, lastSync, syncer, maintenance_mode, scheduler_interval, db, logs, appdata, queue,
                   submitted, tick, worker, runs, raced>>

NextDue == (\E n \in DOMAIN db : IsEventDueCall(n)) \/ Elapse

SpecDue == InitDue /\ [][NextDue]_vars

----------------------------------------------------------------------------
(* sync_jobs: the registry is reconciled with the scheduler_events hooks *)

MethodB == <<"other", "tasks", "ping">>
MethodC == <<"app", "tasks", "cleanup">>
MethodD == <<"legacy", "tasks", "ping">>
MethodX == <<"app", "gone", "method">>

\* the methods frappe.get_attr resolves
Resolvable == {Method1, MethodB, MethodC}

CronEvery3 == <<Every(3), Star, Star, Star, Star>>

\* "61 * * * *", which croniter rejects
CronBad == <<Exactly(61), Star, Star, Star, Star>>

\* event_type.replace("_", " ").title()
Title(event_type) ==
    CASE event_type = "all" -> "All"
      [] event_type = "hourly" -> "Hourly"
      [] event_type = "hourly_long" -> "Hourly Long"
      [] event_type = "hourly_maintenance" -> "Hourly Maintenance"
      [] event_type = "daily" -> "Daily"
      [] event_type = "daily_long" -> "Daily Long"
      [] event_type = "daily_maintenance" -> "Daily Maintenance"
      [] event_type = "weekly" -> "Weekly"
      [] event_type = "weekly_long" -> "Weekly Long"
      [] event_type = "monthly" -> "Monthly"
      [] event_type = "monthly_long" -> "Monthly Long"
      [] OTHER -> event_type

\* one entry of the hooks: event listed under event_type, or under
\* cron_format inside the "cron" mapping
Hook(event_type, event, cron_format) ==
    [event_type |-> event_type, event |-> event, cron_format |-> cron_format]

\* the frequency insert_cron_jobs and insert_event_jobs pass on
FrequencyOf(hook) ==
    IF hook.event_type = "cron" THEN "Cron" ELSE Title(hook.event_type)

\* the hooks an app may declare, in the order insert_events walks them
HookSets ==
    {<<>>,
     <<Hook("hourly", Method1, <<>>)>>,
     <<Hook("cron", Method1, CronEvery3)>>,
     <<Hook("hourly", Method1, <<>>), Hook("daily", Method1, <<>>)>>,
     <<Hook("hourly", Method1, <<>>), Hook("daily", MethodB, <<>>)>>,
     <<Hook("hourly", MethodX, <<>>), Hook("all", MethodC, <<>>)>>,
     <<Hook("cron", MethodC, CronBad)>>,
     <<Hook("hourly", Method1, <<>>), Hook("cron", MethodC, <<>>)>>}

\* all_events: every declared event, resolved or not
AllEvents(hooks) == {hooks[i].event : i \in 1..Len(hooks)}

\* mutant: validate accepts every document
ValidateOkAlways(doc) == TRUE

\* validate: a Cron job needs an expression croniter accepts
ValidateOk(doc) ==
    doc.frequency = "Cron" => (doc.cron_format # <<>> /\ CronValid(doc.cron_format))

\* mutant: a save also forgets when the job last ran
ValidatedForgetsLastExecution(doc) ==
    [doc EXCEPT !.create_log = ValidateCreateLog(doc), !.last_execution = NoTime]

\* the document as validate leaves it
Validated(doc) == [doc EXCEPT !.create_log = ValidateCreateLog(doc)]

\* frappe.db.exists("Scheduled Job Type", {"method": event})
ExistsByMethod(rows, event) == {n \in DOMAIN rows : rows[n].method = event}

\* Scheduled Job Log rows without those of a deleted job (on_trash)
WithoutLogsOf(logrows, name) ==
    [id \in {k \in DOMAIN logrows : logrows[k].scheduled_job_type # name}
       |-> logrows[id]]

\* frappe.delete_doc("Scheduled Job Type", name)
DeleteDoc(st, name) ==
    [st EXCEPT !.rows = [m \in DOMAIN st.rows \ {name} |-> st.rows[m]],
               !.logs = WithoutLogsOf(st.logs, name),
               !.writes = @ + 1]

\* doc.insert() of a validated new document
InsertDoc(st, doc) ==
    [st EXCEPT !.rows = (Autoname(doc.method) :> Validated(doc)) @@ st.rows,
               !.writes = @ + 1]

\* mutant: the event is not resolved first
InsertSingleEventUnresolved(st, frequency, event, cron_format, now) ==
    IF ExistsByMethod(st.rows, event) # {}
    THEN LET job_name == CHOOSE n \in ExistsByMethod(st.rows, event) : TRUE
             doc == st.rows[job_name]
             changed == [doc EXCEPT !.cron_format = cron_format,
                                    !.frequency = frequency]
         IN  IF doc.frequency # frequency \/ doc.cron_format # cron_format
             THEN IF ValidateOk(changed)
                  THEN [st EXCEPT !.rows[job_name] = Validated(changed),
                                  !.writes = @ + 1]
                  ELSE [st EXCEPT !.raised = TRUE]
             ELSE st
    ELSE LET doc == NewDoc(event, frequency, cron_format, 0, 0, now)
         IN  IF ~ValidateOk(doc) THEN [st EXCEPT !.raised = TRUE]
             ELSE IF Autoname(event) \in DOMAIN st.rows
             THEN InsertDoc(DeleteDoc(st, Autoname(event)), doc)
             ELSE InsertDoc(st, doc)

\* insert_single_event on the registry st.rows; st.writes counts the rows
\* inserted, updated and deleted, st.raised tells that validate has thrown
InsertSingleEvent(st, frequency, event, cron_format, now) ==
    IF event \notin Resolvable THEN st
    ELSE IF ExistsByMethod(st.rows, event) # {}
    THEN LET job_name == CHOOSE n \in ExistsByMethod(st.rows, event) : TRUE
             doc == st.rows[job_name]
             changed == [doc EXCEPT !.cron_format = cron_format,
                                    !.frequency = frequency]
         IN  IF doc.frequency # frequency \/ doc.cron_format # cron_format
             THEN IF ValidateOk(changed)
                  THEN [st EXCEPT !.rows[job_name] = Validated(changed),
                                  !.writes = @ + 1]
                  ELSE [st EXCEPT !.raised = TRUE]
             ELSE st
    ELSE LET doc == NewDoc(event, frequency, cron_format, 0, 0, now)
         IN  IF ~ValidateOk(doc) THEN [st EXCEPT !.raised = TRUE]
             ELSE IF Autoname(event) \in DOMAIN st.rows
             THEN InsertDoc(DeleteDoc(st, Autoname(event)), doc)
             ELSE InsertDoc(st, doc)

\* insert_events: insert_single_event for each declared event, in order, up
\* to the first that raises
RECURSIVE InsertEvents(_, _, _)
InsertEvents(st, hooks, now) ==
    IF hooks = <<>> \/ st.raised THEN st
    ELSE LET hook == Head(hooks)
         IN  InsertEvents(InsertSingleEvent(st, FrequencyOf(hook), hook.event,
                                            hook.cron_format, now),
                          Tail(hooks), now)

\* the rows clear_events deletes
Stale(rows, all_events) ==
    {n \in DOMAIN rows :
        /\ rows[n].scheduler_event = ""
        /\ ~(rows[n].method \in all_events \/ rows[n].server_script # "")}

\* mutant: the rows are deleted without on_trash, their logs stay
ClearEventsKeepsLogs(st, all_events) ==
    LET stale == Stale(st.rows, all_events)
    IN  [st EXCEPT
           !.rows = [n \in DOMAIN st.rows \ stale |-> st.rows[n]],
           !.writes = @ + Cardinality(stale)]

\* clear_events
ClearEvents(st, all_events) ==
    LET stale == Stale(st.rows, all_events)
    IN  [st EXCEPT
           !.rows = [n \in DOMAIN st.rows \ stale |-> st.rows[n]],
           !.logs = [id \in {k \in DOMAIN st.logs :
                                st.logs[k].scheduled_job_type \notin stale}
                       |-> st.logs[id]],
           !.writes = @ + Cardinality(stale)]

\* the registry as sync_jobs finds it
Registry == [rows |-> db, logs |-> logs, writes |-> 0, raised |-> FALSE]

\* the registry after insert_events
Upserted == InsertEvents(Registry, scheduler_events, clock)

\* sync_jobs(): insert_events, then clear_events. When validate throws the
\* exception leaves sync_jobs; what was written before it is kept or rolled
\* back, as the caller has it.
SyncJobs ==
    /\ IF Upserted.raised
       THEN \E kept \in BOOLEAN :
               /\ db' = IF kept THEN Upserted.rows ELSE db
               /\ logs' = IF kept THEN Upserted.logs ELSE logs
               /\ lastSync' = [ran |-> TRUE, again |-> lastSync.ran,
                               writes |-> IF kept THEN Upserted.writes ELSE 0,
                               raised |-> TRUE]
       ELSE LET done == ClearEvents(Upserted, AllEvents(scheduler_events))
            IN  /\ db' = done.rows
                /\ logs' = done.logs
                /\ lastSync' = [ran |-> TRUE, again |-> lastSync.ran,
                                writes |-> done.writes, raised |-> FALSE]
    /\ lastCall' = NoCall
    /\ UNCHANGED <<site, scheduler_events, syncer, clock, maintenance_mode,
                   scheduler_interval, appdata, queue, submitted, tick, worker,
                   runs, raced>>

\* an app is installed, updated or removed: the hooks change
SetHooks(hooks) ==
    /\ hooks # scheduler_events
    /\ scheduler_events' = hooks
    /\ lastSync' = NoSync
    /\ lastCall' = NoCall
    /\ UNCHANGED <<site, syncer, clock, maintenance_mode, scheduler_interval,
                   db, logs, appdata, queue, submitted, tick, worker, runs,
                   raced>>

\* a user sets frequency and cron_format of a job and saves it: validate,
\* which may throw, then the row is written
SaveJob(n, frequency, cron_format) ==
    /\ n \in DOMAIN db
    /\ LET doc == [db[n] EXCEPT !.frequency = frequency, !.cron_format = cron_format]
       IN  /\ doc # db[n]
           /\ IF ValidateOk(doc)
              THEN /\ db' = [db EXCEPT ![n] = Validated(doc)]
                   /\ lastSync' = NoSync
                   /\ lastCall' = NoCall
              ELSE /\ db' = db
                   /\ lastSync' = lastSync
                   /\ lastCall' = [method |-> doc.method, force |-> FALSE,
                                   ret |-> "ValidationError"]
    /\ UNCHANGED <<site, scheduler_events, syncer, clock, maintenance_mode,
                   scheduler_interval, logs, appdata, queue, submitted, tick,
                   worker, runs, raced>>

\* the frequencies a user picks
SaveFrequencies == {"Hourly", "Cron"}

\* the rows a site may hold before a sync: a job that ran without a log and
\* was stopped, a Cron job, a job whose method is gone, jobs owned by a
\* scheduler event or a server script
SyncRows ==
    {[NewDoc(Method1, "All", <<>>, 0, 1, CreationTime)
        EXCEPT !.last_execution = At(0, 0, 56)],
     NewDoc(Method1, "Cron", CronEvery3, 1, 0, CreationTime),
     [NewDoc(MethodD, "Hourly", <<>>, 1, 0, CreationTime)
        EXCEPT !.server_script = "script1"],
     NewDoc(MethodC, "Hourly", <<>>, 1, 0, CreationTime),
     NewDoc(MethodX, "Daily", <<>>, 1, 0, CreationTime),
     [NewDoc(MethodC, "Hourly", <<>>, 1, 0, CreationTime)
        EXCEPT !.scheduler_event = "event1"]}

\* a registry: rows under their names, one row per name
RegistryOf(docs) ==
    [n \in {Autoname(d.method) : d \in docs}
       |-> CHOOSE d \in docs : Autoname(d.method) = n]

InitSync ==
    /\ site = Site
    /\ scheduler_events \in HookSets
    /\ lastSync = NoSync
    /\ syncer = NoSyncer
    /\ clock = StartClock
    /\ maintenance_mode = FALSE
    /\ scheduler_interval = 0
    /\ \E docs \in SUBSET SyncRows :
         /\ \A d, e \in docs : Autoname(d.method) = Autoname(e.method) => d = e
         /\ db = RegistryOf(docs)
    /\ logs = <<>>
    /\ appdata = 0
    /\ queue = <<>>
    /\ submitted = [m \in Methods |-> NoTime]
    /\ tick = [t \in Ticks |-> IdleTick]
    /\ lastCall = NoCall
    /\ raced = FALSE
    /\ worker = [w \in Workers |-> IdleWorker]
    /\ runs = 0

NextSync ==
    \/ SyncJobs
    \/ \E hooks \in HookSets : SetHooks(hooks)
    \/ \E n \in DOMAIN db, frequency \in SaveFrequencies :
         \E cron_format \in {<<>>, CronEvery3, CronBad, db[n].cron_format} :
           SaveJob(n, frequency, cron_format)
    \/ \E n \in DOMAIN db : IsEventDueCall(n)

SpecSync == InitSync /\ [][NextSync]_vars

----------------------------------------------------------------------------
(* Two sync_jobs() calls side by side. Each statement on the database is one
   step and sees what the other call has written. *)

\* the hooks of the site: one job, two jobs, two jobs of one name
RaceHookSets ==
    {<<Hook("hourly", Method1, <<>>)>>,
     <<Hook("hourly", Method1, <<>>), Hook("daily", MethodC, <<>>)>>,
     <<Hook("hourly", Method1, <<>>), Hook("daily", MethodB, <<>>)>>}

\* the rows of the site before the calls
RaceRows ==
    {NewDoc(MethodX, "Daily", <<>>, 1, 0, CreationTime),
     NewDoc(MethodC, "Hourly", <<>>, 1, 0, CreationTime)}

InitSyncRace ==
    /\ site = Site
    /\ scheduler_events \in RaceHookSets
    /\ lastSync = NoSync
    /\ syncer = NoSyncer
    /\ clock = StartClock
    /\ maintenance_mode = FALSE
    /\ scheduler_interval = 0
    /\ \E docs \in SUBSET RaceRows : db = RegistryOf(docs)
    /\ logs = <<>>
    /\ appdata = 0
    /\ queue = <<>>
    /\ submitted = [m \in Methods |-> NoTime]
    /\ tick = [t \in Ticks |-> IdleTick]
    /\ lastCall = NoCall
    /\ raced = FALSE
    /\ worker = [w \in Workers |-> IdleWorker]
    /\ runs = 0

\* the other call
Other(p) == CHOOSE q \in Syncers : q # p

\* call p goes on with the next declared event
NextEvent(p) ==
    [syncer EXCEPT !.proc[p].pc = "check", !.proc[p].k = @ + 1]

\* the document insert_single_event builds for the event call p is at
NewEventDoc(p) ==
    LET hook == scheduler_events[syncer.proc[p].k]
    IN  NewDoc(hook.event, FrequencyOf(hook), hook.cron_format, 0, 0, clock)

\* sync_jobs() is called
BeginSync(p) ==
    /\ syncer.proc[p].pc = "idle"
    /\ syncer' = [syncer EXCEPT !.proc[p].pc = "check"]
    /\ UNCHANGED <<site, scheduler_events, lastSync, clock, maintenance_mode,
                   scheduler_interval, db, logs, appdata, queue, submitted,
                   tick, lastCall, raced, worker, runs>>

\* insert_single_event up to the insert: get_attr, frappe.db.exists, and the
\* update of the row that exists
CheckExists(p) ==
    /\ syncer.proc[p].pc = "check"
    /\ syncer.proc[p].k <= Len(scheduler_events)
    /\ LET hook == scheduler_events[syncer.proc[p].k]
           q == Other(p)
       IN  IF hook.event \in Resolvable /\ ExistsByMethod(db, hook.event) = {}
           THEN /\ syncer' =
                      [syncer EXCEPT
                         !.proc[p].pc = "insert",
                         !.both = IF /\ syncer.proc[q].pc = "insert"
                                     /\ syncer.proc[q].k = syncer.proc[p].k
                                  THEN @ \cup {hook.event} ELSE @]
                /\ UNCHANGED <<db, logs>>
           ELSE LET done == InsertSingleEvent(Registry, FrequencyOf(hook),
                                              hook.event, hook.cron_format, clock)
                IN  /\ db' = done.rows
                    /\ logs' = done.logs
                    /\ syncer' = IF done.raised
                                 THEN [syncer EXCEPT !.proc[p].pc = "raised"]
                                 ELSE NextEvent(p)
    /\ UNCHANGED <<site, scheduler_events, lastSync, clock, maintenance_mode,
                   scheduler_interval, appdata, queue, submitted, tick,
                   lastCall, raced, worker, runs>>

\* savepoint and doc.insert(): validate, then the row is written unless its
\* name is taken, which raises DuplicateEntryError
Insert(p) ==
    /\ syncer.proc[p].pc = "insert"
    /\ LET doc == NewEventDoc(p)
       IN  IF ~ValidateOk(doc)
           THEN /\ syncer' = [syncer EXCEPT !.proc[p].pc = "raised"]
                /\ UNCHANGED <<db, logs>>
           ELSE IF Autoname(doc.method) \in DOMAIN db
           THEN /\ syncer' = [syncer EXCEPT !.proc[p].pc = "retry"]
                /\ UNCHANGED <<db, logs>>
           ELSE /\ db' = InsertDoc(Registry, doc).rows
                /\ syncer' = NextEvent(p)
                /\ UNCHANGED logs
    /\ UNCHANGED <<site, scheduler_events, lastSync, clock, maintenance_mode,
                   scheduler_interval, appdata, queue, submitted, tick,
                   lastCall, raced, worker, runs>>

\* except DuplicateEntryError: rollback to the savepoint and doc.delete(),
\* which deletes the row that took the name, if it is still there
RetryDelete(p) ==
    /\ syncer.proc[p].pc = "retry"
    /\ LET name == Autoname(NewEventDoc(p).method)
           done == IF name \in DOMAIN db THEN DeleteDoc(Registry, name)
                   ELSE Registry
       IN  /\ db' = done.rows
           /\ logs' = done.logs
    /\ syncer' = [syncer EXCEPT !.proc[p].pc = "reinsert"]
    /\ UNCHANGED <<site, scheduler_events, lastSync, clock, maintenance_mode,
                   scheduler_interval, appdata, queue, submitted, tick,
                   lastCall, raced, worker, runs>>

\* the second doc.insert(), whose DuplicateEntryError nobody catches
Reinsert(p) ==
    /\ syncer.proc[p].pc = "reinsert"
    /\ LET doc == NewEventDoc(p)
       IN  IF Autoname(doc.method) \in DOMAIN db
           THEN /\ syncer' = [syncer EXCEPT !.proc[p].pc = "raised"]
                /\ UNCHANGED db
           ELSE /\ db' = InsertDoc(Registry, doc).rows
                /\ syncer' = NextEvent(p)
    /\ UNCHANGED <<site, scheduler_events, lastSync, clock, maintenance_mode,
                   scheduler_interval, logs, appdata, queue, submitted, tick,
                   lastCall, raced, worker, runs>>

\* clear_events: frappe.get_all reads the rows
ReadRows(p) ==
    /\ syncer.proc[p].pc = "check"
    /\ syncer.proc[p].k > Len(scheduler_events)
    /\ syncer' = [syncer EXCEPT
                    !.proc[p].pc = "clear",
                    !.proc[p].stale = Stale(db, AllEvents(scheduler_events))]
    /\ UNCHANGED <<site, scheduler_events, lastSync, clock, maintenance_mode,
                   scheduler_interval, db, logs, appdata, queue, submitted,
                   tick, lastCall, raced, worker, runs>>

\* clear_events: frappe.delete_doc for each of the rows read that is neither
\* declared nor linked, by its name
ClearRead(p) ==
    /\ syncer.proc[p].pc = "clear"
    /\ LET stale == syncer.proc[p].stale
       IN  /\ db' = [n \in DOMAIN db \ stale |-> db[n]]
           /\ logs' = [id \in {k \in DOMAIN logs :
                                  logs[k].scheduled_job_type \notin stale}
                         |-> logs[id]]
    /\ syncer' = [syncer EXCEPT !.proc[p].pc = "done"]
    /\ UNCHANGED <<site, scheduler_events, lastSync, clock, maintenance_mode,
                   scheduler_interval, appdata, queue, submitted, tick,
                   lastCall, raced, worker, runs>>

NextSyncRace ==
    \E p \in Syncers :
        \/ BeginSync(p)
        \/ CheckExists(p)
        \/ Insert(p)
        \/ RetryDelete(p)
        \/ Reinsert(p)
        \/ ReadRows(p)
        \/ ClearRead(p)

SpecSyncRace == InitSyncRace /\ [][NextSyncRace]_vars

----------------------------------------------------------------------------
(* The scheduler and sync_jobs() on one site within one minute: ticks
   enqueue, a worker runs, and a sync may come at any moment, also while a
   job runs *)

\* the hooks of the site: nothing, one of the jobs that are there, a namesake
\* of it, both jobs
RunSyncHookSets ==
    {<<>>,
     <<Hook("all", Method1, <<>>)>>,
     <<Hook("all", MethodB, <<>>)>>,
     <<Hook("all", Method1, <<>>), Hook("all", MethodC, <<>>)>>}

\* the registries of the site when the scheduler starts: one job or two, with
\* and without a log
RunSyncRegistries ==
    {{NewDoc(Method1, "All", <<>>, 1, 0, CreationTime)},
     {NewDoc(Method1, "All", <<>>, 1, 0, CreationTime),
      NewDoc(MethodC, "All", <<>>, 1, 0, CreationTime)},
     {NewDoc(Method1, "All", <<>>, 0, 0, CreationTime),
      NewDoc(MethodC, "All", <<>>, 1, 0, CreationTime)}}

InitRunSync ==
    /\ site = Site
    /\ scheduler_events \in RunSyncHookSets
    /\ lastSync = NoSync
    /\ syncer = NoSyncer
    /\ clock = StartClock
    /\ maintenance_mode = FALSE
    /\ scheduler_interval = 0
    /\ \E docs \in RunSyncRegistries : db = RegistryOf(docs)
    /\ logs = <<>>
    /\ appdata = 0
    /\ queue = <<>>
    /\ submitted = [m \in {Method1, MethodB, MethodC} |-> NoTime]
    /\ tick = [t \in Ticks |-> IdleTick]
    /\ lastCall = NoCall
    /\ raced = FALSE
    /\ worker = [w \in Workers |-> IdleWorker]
    /\ runs = 0

NextRunSync ==
    \/ \E n \in DOMAIN db : EnqueueCall("tick1", n, FALSE)
    \/ \E w \in Workers, i \in 1..Len(queue) : RunMissing(w, i)
    \/ Execute
    \/ SyncJobs
    \/ \E n \in DOMAIN db : DeleteJob(n)

SpecRunSync == InitRunSync /\ [][NextRunSync]_vars

----------------------------------------------------------------------------
(* Notions the claims are stated with *)

\* expr has an occurrence t with lo < t <= hi
OccursWithin(expr, lo, hi) == \E t \in (lo + 1)..hi : Matches(expr, t)

\* the anchor of a job: last_execution, or creation on a cold start
Anchor(doc) == IF doc.last_execution # NoTime THEN doc.last_execution ELSE doc.creation

\* an occurrence of the job's cron expression lies after its anchor and at or
\* before now
OccurrencePassed(doc, now) ==
    OccursWithin(ResolvedCron(doc, site, scheduler_interval), Anchor(doc), now)

\* this step is an enqueue() call that returned
CallReturns == lastCall' # NoCall /\ clock' = clock /\ tick' = tick

\* this step submits method m to the queue
Submits(m) ==
    /\ Len(queue') = Len(queue) + 1
    /\ queue'[Len(queue')].method = m

\* this step is worker w taking the step from position a to position b
WorkerStep(w, a, b) == worker[w].pc = a /\ worker'[w].pc = b

NameOfRun(w) == Autoname(worker[w].doc.method)

\* this step is a sync_jobs() call
SyncReturns ==
    /\ lastSync'.ran
    /\ ~lastSync'.raised
    /\ lastCall' = NoCall
    /\ scheduler_events' = scheduler_events

\* this step is a sync_jobs() call that validate's exception has ended
SyncRaises ==
    /\ lastSync'.ran
    /\ lastSync'.raised
    /\ lastCall' = NoCall
    /\ scheduler_events' = scheduler_events

\* the registry when sync_jobs() comes to its k-th declared event
BeforeEvent(k) == InsertEvents(Registry, SubSeq(scheduler_events, 1, k - 1), clock)

\* the registry after insert_single_event for the k-th declared event
AfterEvent(k) ==
    InsertSingleEvent(BeforeEvent(k), FrequencyOf(scheduler_events[k]),
                      scheduler_events[k].event, scheduler_events[k].cron_format,
                      clock)

\* the k-th declared event resolves and a row with its method exists
FindsExisting(k) ==
    /\ scheduler_events[k].event \in Resolvable
    /\ ExistsByMethod(BeforeEvent(k).rows, scheduler_events[k].event) # {}

\* the declared events that resolve, in their order
RECURSIVE ResolvedOnly(_)
ResolvedOnly(hooks) ==
    IF hooks = <<>> THEN <<>>
    ELSE IF Head(hooks).event \in Resolvable
         THEN <<Head(hooks)>> \o ResolvedOnly(Tail(hooks))
         ELSE ResolvedOnly(Tail(hooks))

\* the job of a row carries a back-reference
Linked(doc) == doc.scheduler_event # "" \/ doc.server_script # ""

----------------------------------------------------------------------------
(* C1: concurrent enqueue() calls for one job *)

\* C1 (as claimed): for every interleaving of the enqueue() calls of concurrent
\* ticks, the queue never holds more than one in-flight submission for a
\* job's dedup key.
C1_AtMostOneInFlight ==
    \A m \in Methods : InFlight(RqJobId(m)) <= 1

\* C1 (amended): as long as no call's dedup check has passed while another
\* call for the same job stood between its own check and its submission, the
\* in-flight submissions of a key and the calls about to submit it number at
\* most one; in every case they number at most one per concurrent tick.
C1_AtMostOneUnlessRaced ==
    \A m \in Methods :
        InFlight(RqJobId(m)) + Cardinality(AboutToSubmit(m))
            <= IF raced THEN Cardinality(Ticks) ELSE 1

\* a submission is in flight while another tick is inside enqueue(), and no
\* check has raced
C1_Witness ==
    /\ ~raced
    /\ InFlight(RqJobId(Method1)) = 1
    /\ \E t \in Ticks : tick[t].pc = "due"

----------------------------------------------------------------------------
(* C2: one submission per occurrence *)

\* C2: once enqueue() has submitted a job, a later call without force submits
\* it again only when an occurrence of its cron expression lies after the
\* earlier submission, whatever became of the run in between.
C2_OncePerOccurrence ==
    [][\A m \in Methods :
          (Submits(m) /\ ~lastCall'.force /\ submitted[m] # NoTime
             /\ Autoname(m) \in DOMAIN db)
          => OccursWithin(ResolvedCron(db[Autoname(m)], site, scheduler_interval),
                          submitted[m], clock)]_vars

----------------------------------------------------------------------------
(* C3: on_start *)

\* C3: log_status("Start") leaves last_execution committed at the current
\* time, with create_log set or not, and the committed value stays while the
\* runnable runs and when it raises and the transaction is rolled back.
C3_StartCommitsLastExecution ==
    [][\A w \in Workers :
          /\ WorkerStep(w, "idle", "started") =>
                LET n == Autoname(worker'[w].doc.method)
                IN  n \in DOMAIN db' /\ db'[n].last_execution = clock
          /\ (worker[w].pc = "started" /\ worker'[w].pc \in {"started", "raised"}
                /\ NameOfRun(w) \in DOMAIN db')
             => db'[NameOfRun(w)].last_execution = db[NameOfRun(w)].last_execution]_vars

\* a runnable has raised after the clock moved on, for a job without logging
\* and for one with
C3_Witness ==
    \E w \in Workers :
        /\ worker[w].pc = "raised"
        /\ NameOfRun(w) \in DOMAIN db
        /\ db[NameOfRun(w)].last_execution # NoTime
        /\ db[NameOfRun(w)].last_execution < clock

----------------------------------------------------------------------------
(* C4: on_complete and on_failed with logging disabled *)

\* C4: for a job with create_log unset, log_status("Complete") and
\* log_status("Failed") change nothing: last_execution keeps the value on_start
\* wrote and the run has no Scheduled Job Log.
C4_EndIsNoOpWithoutLog ==
    [][\A w \in Workers :
          (worker[w].pc \in {"ran", "raised"} /\ worker'[w].pc = "idle"
             /\ worker[w].doc.create_log = 0)
          => /\ db' = db
             /\ logs' = logs
             /\ worker[w].log = 0]_vars

----------------------------------------------------------------------------
(* C5: a failed run and the next occurrence *)

\* C5: after on_start at T and on_failed, the job is due at now exactly when an
\* occurrence of its cron expression lies after T and at or before now.
C5_FailedRunDueAtNextOccurrence ==
    [][\A w \in Workers :
          (WorkerStep(w, "raised", "idle") /\ NameOfRun(w) \in DOMAIN db)
          => LET n == NameOfRun(w)
                 startedAt == db[n].last_execution
                 expr == ResolvedCron(db[n], site, scheduler_interval)
             IN  \A now \in clock..(StartClock + 2 * Horizon) :
                   IsEventDue(db'[n], site, scheduler_interval, now)
                     <=> OccursWithin(expr, startedAt, now)]_vars

----------------------------------------------------------------------------
(* C6: the runnable raises *)

\* C6: out of maintenance mode, when the runnable raises run_scheduled_job
\* still returns normally, the runnable's uncommitted writes are rolled back,
\* and with logging enabled the run's Scheduled Job Log ends with status Failed
\* and a diagnostic text.
C6_FailureIsSwallowedAndLogged ==
    [][\A w \in Workers :
          /\ WorkerStep(w, "started", "raised")
                => appdata' = appdata /\ worker'[w].pending = 0
          /\ WorkerStep(w, "raised", "idle")
                => /\ worker'[w].ret = "returned"
                   /\ appdata' = appdata
                   /\ (worker[w].doc.create_log = 1 /\ worker[w].log \in DOMAIN logs)
                      => /\ logs'[worker[w].log].status = "Failed"
                         /\ logs'[worker[w].log].details # ""]_vars

\* a run whose runnable raised has returned and left a Failed log, and nothing
\* the runnables wrote is committed
C6_Witness ==
    /\ \E w \in Workers : worker[w].pc = "idle" /\ worker[w].ret = "returned"
    /\ \E id \in DOMAIN logs : logs[id].status = "Failed" /\ logs[id].details # ""
    /\ appdata = 0
    /\ ~maintenance_mode

----------------------------------------------------------------------------
(* C7: maintenance mode *)

\* C7: in maintenance mode run_scheduled_job raises InReadOnlyMode before any
\* effect: no run starts, last_execution and every other job field are
\* unchanged and no Scheduled Job Log is created or modified.
C7_MaintenanceModeRefusal ==
    [][(maintenance_mode /\ Len(queue') < Len(queue))
          => /\ \E w \in Workers :
                  /\ worker[w].pc = "idle"
                  /\ worker'[w].pc = "idle"
                  /\ worker'[w].ret = "InReadOnlyMode"
             /\ db' = db
             /\ logs' = logs
             /\ appdata' = appdata
             /\ runs' = runs]_vars

\* a run has been refused while a due job waits with no last_execution
C7_Witness ==
    /\ maintenance_mode
    /\ \E w \in Workers : worker[w].ret = "InReadOnlyMode"
    /\ \E n \in DOMAIN db : db[n].last_execution = NoTime /\ OccurrencePassed(db[n], clock)
    /\ logs = <<>>

----------------------------------------------------------------------------
(* C8: stopped jobs *)

\* C8: enqueue() without force never submits a job whose stopped flag is set.
C8_StoppedNeverSubmitted ==
    [][\A m \in Methods :
          (Submits(m) /\ ~lastCall'.force /\ Autoname(m) \in DOMAIN db)
          => db[Autoname(m)].stopped = 0]_vars

----------------------------------------------------------------------------
(* C9: two calls in a row *)

\* C9: a call of enqueue() for a due job with nothing in flight returns True
\* and leaves one submission in flight; a second call for the same job right
\* after it, with no run start in between, returns False and leaves the queue
\* as it is, holding that one submission.
C9_EnqueuedThenSkipped ==
    [][\A m \in Methods :
          /\ (CallReturns /\ lastCall'.method = m /\ Autoname(m) \in DOMAIN db
                /\ OccurrencePassed(db[Autoname(m)], clock)
                /\ InFlight(RqJobId(m)) = 0)
             => /\ lastCall'.ret = "True"
                /\ Len(queue') = Len(queue) + 1
          /\ (CallReturns /\ lastCall.method = m /\ lastCall.ret = "True"
                /\ lastCall'.method = m)
             => /\ lastCall'.ret = "False"
                /\ queue' = queue
                /\ InFlight(RqJobId(m)) = 1]_vars

\* the second call has returned False for a job that is due and in flight
C9_Witness ==
    /\ lastCall.method = Method1
    /\ lastCall.ret = "False"
    /\ ~lastCall.force
    /\ Len(queue) = 1
    /\ InFlight(RqJobId(Method1)) = 1
    /\ Autoname(Method1) \in DOMAIN db
    /\ OccurrencePassed(db[Autoname(Method1)], clock)

----------------------------------------------------------------------------
(* C10: a job that is not due *)

\* C10: enqueue() without force on a job that is not due returns False and
\* changes neither the queue, nor a Scheduled Job Type row, nor a Scheduled Job
\* Log.
C10_NotDueNoEffect ==
    [][\A m \in Methods :
          (CallReturns /\ lastCall'.method = m /\ ~lastCall'.force
             /\ Autoname(m) \in DOMAIN db
             /\ ~OccurrencePassed(db[Autoname(m)], clock))
          => /\ lastCall'.ret = "False"
             /\ UNCHANGED <<queue, db, logs, appdata, submitted, worker, runs>>]_vars

\* a call without force has returned False for a job that is not due, with
\* nothing in flight
C10_Witness ==
    /\ lastCall.method = Method1
    /\ lastCall.ret = "False"
    /\ ~lastCall.force
    /\ Autoname(Method1) \in DOMAIN db
    /\ ~OccurrencePassed(db[Autoname(Method1)], clock)
    /\ InFlight(RqJobId(Method1)) = 0
    /\ db[Autoname(Method1)].last_execution # NoTime

----------------------------------------------------------------------------
(* C11: enqueue(force=True), the call execute_event makes *)

\* C11: a call of enqueue() with force set submits the job, due or not, when
\* no submission with its job id is in flight, and returns True; when one is
\* in flight it returns False and submits nothing.
C11_ForceSubmitsUnlessInFlight ==
    [][\A m \in Methods :
          (CallReturns /\ lastCall'.method = m /\ lastCall'.force
             /\ lastCall'.ret # "raised")
          => IF InFlight(RqJobId(m)) = 0
             THEN /\ lastCall'.ret = "True"
                  /\ Submits(m)
                  /\ InFlight(RqJobId(m))' = 1
             ELSE /\ lastCall'.ret = "False"
                  /\ queue' = queue]_vars

\* a forced call has submitted a job that is not due
C11_Witness ==
    /\ lastCall.method = Method1
    /\ lastCall.force
    /\ lastCall.ret = "True"
    /\ Len(queue) = 1
    /\ Autoname(Method1) \in DOMAIN db
    /\ ~OccurrencePassed(db[Autoname(Method1)], clock)

----------------------------------------------------------------------------
(* C12: is_event_due and its anchor *)

\* C12: is_event_due() answers true exactly when an occurrence of the job's
\* cron expression lies strictly after the anchor and at or before now, the
\* anchor being last_execution when set and creation otherwise; a Daily job
\* that never ran is due exactly from the first midnight after its creation.
C12_DueFromAnchor ==
    [][\A n \in DOMAIN db :
          (lastCall' \notin {lastCall, NoCall} /\ lastCall'.ret \in {"due", "not due"})
          => /\ lastCall'.ret = "due" <=> OccurrencePassed(db[n], clock)
             /\ (db[n].frequency = "Daily" /\ db[n].last_execution = NoTime)
                => (lastCall'.ret = "due" <=> DayOf(clock) > DayOf(db[n].creation))]_vars

\* a Daily job created at 00:30 that never ran is found due right at the
\* next midnight
C12_Witness ==
    /\ lastCall.ret = "due"
    /\ clock = At(1, 0, 0)
    /\ \E n \in DOMAIN db :
         /\ db[n].frequency = "Daily"
         /\ db[n].last_execution = NoTime
         /\ db[n].creation = At(0, 0, 30)

----------------------------------------------------------------------------
(* C13: the step of frequency All *)

\* C13: for a job of frequency All the expression get_next_execution resolves
\* is "*/k * * * *" with k the configured scheduler_interval in whole minutes,
\* rounded down but at least 1, and croniter accepts it, so is_event_due()
\* answers; this for every configured interval, those below 60 seconds too.
C13_AllStepAtLeastOneMinute ==
    [][\A n \in DOMAIN db :
          (lastCall' \notin {lastCall, NoCall} /\ db[n].frequency = "All"
             /\ lastCall'.ret \in {"due", "not due", "raised"})
          => LET minutes == EffectiveInterval(scheduler_interval) \div 60
                 k == IF minutes < 1 THEN 1 ELSE minutes
                 expr == ResolvedCron(db[n], site, scheduler_interval)
             IN  /\ expr = <<Every(k), Star, Star, Star, Star>>
                 /\ CronValid(expr)
                 /\ lastCall'.ret # "raised"]_vars

----------------------------------------------------------------------------
(* C14: the site offsets of the maintenance frequencies *)

\* C14: on every site the minute of Hourly Maintenance depends on the site
\* alone (no step changes it) and lies in 0..59, the minute of Daily
\* Maintenance is the hourly one plus 30 modulo 60, and is_event_due() of a
\* maintenance job follows the occurrences at these minutes.
C14_SiteOffsets ==
    [][LET h == HourlySiteOffset(site)
           d == DailySiteOffset(site)
       IN  /\ h \in 0..59
           /\ d = (h + 30) % 60
           /\ HourlySiteOffset(site') = h
           /\ DailySiteOffset(site') = d
           /\ \A n \in DOMAIN db :
                (lastCall' \notin {lastCall, NoCall}
                   /\ lastCall'.ret \in {"due", "not due", "raised"})
                => /\ db[n].frequency = "Hourly Maintenance"
                      => (lastCall'.ret = "due"
                            <=> \E t \in (Anchor(db[n]) + 1)..clock : MinuteOf(t) = h)
                   /\ db[n].frequency = "Daily Maintenance"
                      => (lastCall'.ret = "due"
                            <=> \E t \in (Anchor(db[n]) + 1)..clock :
                                  MinuteOf(t) = (h + 30) % 60 /\ HourOf(t) = 0)]_vars

\* a Daily Maintenance job is found due at the site's daily minute past
\* midnight, which differs from the hourly minute
C14_Witness ==
    /\ lastCall.ret = "due"
    /\ HourOf(clock) = 0
    /\ MinuteOf(clock) = DailySiteOffset(site)
    /\ DailySiteOffset(site) # HourlySiteOffset(site)
    /\ \E n \in DOMAIN db :
         /\ db[n].frequency = "Daily Maintenance"
         /\ db[n].last_execution = NoTime

----------------------------------------------------------------------------
(* C15: which expression a job is evaluated with *)

\* C15: after any writes and syncs, is_event_due() evaluates a job of
\* frequency Cron with its stored cron_format and a job of any other frequency
\* with the CRON_MAP expression of that frequency, whatever cron_format the
\* row holds from an earlier frequency.
C15_CronFormatOnlyForCron ==
    [][\A n \in DOMAIN db :
          (lastCall' \notin {lastCall, NoCall}
             /\ lastCall'.ret \in {"due", "not due", "raised"}
             /\ lastCall'.method = db[n].method)
          => LET used == ResolvedCron(db[n], site, scheduler_interval)
                 canonical == IF db[n].frequency = "Cron" THEN db[n].cron_format
                              ELSE CronMap(db[n].frequency, site, scheduler_interval)
             IN  /\ used = canonical
                 /\ lastCall'.ret = "due"
                      <=> OccursWithin(canonical, Anchor(db[n]), clock)]_vars

----------------------------------------------------------------------------
(* C16: sync_jobs twice in a row *)

\* C16: a sync_jobs() call that follows another one, with the same hooks and
\* no write to the registry in between, inserts, updates and deletes nothing,
\* whatever the hooks declare.
C16_SecondSyncWritesNothing ==
    lastSync.again => lastSync.writes = 0

----------------------------------------------------------------------------
(* C17: what sync_jobs deletes *)

\* C17: sync_jobs() deletes the Scheduled Job Type of a method exactly when the
\* method is not declared in the hooks and its row is linked to neither a
\* scheduler event nor a server script; the job of every declared method and
\* every linked job is still there after the call.
C17_DeletedExactlyWhenStale ==
    [][SyncReturns =>
          \A n \in DOMAIN db :
              ExistsByMethod(db', db[n].method) = {}
                <=> (db[n].method \notin AllEvents(scheduler_events)
                       /\ ~Linked(db[n]))]_vars

----------------------------------------------------------------------------
(* C18: the update of an existing job by sync_jobs *)

----------------------------------------------------------------------------
(* C19: every declared job is registered *)

\* C19: when sync_jobs() returns, the registry holds a Scheduled Job Type for
\* every declared method that frappe.get_attr resolves, also when two declared
\* methods end in the same two segments.
C19_EveryDeclaredJobRegistered ==
    [][SyncReturns =>
          \A m \in AllEvents(scheduler_events) \cap Resolvable :
              ExistsByMethod(db', m) # {}]_vars

----------------------------------------------------------------------------
(* C20: a declared method that does not resolve *)

\* C20: for a declared method that frappe.get_attr does not resolve,
\* sync_jobs() inserts and updates nothing, and it goes on: the call returns
\* with the registry it would leave had only the resolving events been
\* upserted, every one of them registered.
C20_UnresolvedIsSkipped ==
    [][SyncReturns =>
          \A k \in 1..Len(scheduler_events) :
              scheduler_events[k].event \notin Resolvable =>
                /\ AfterEvent(k) = BeforeEvent(k)
                /\ \A n \in DOMAIN db' :
                      db'[n].method = scheduler_events[k].event
                        => (n \in DOMAIN db /\ db'[n] = db[n])
                /\ db' = ClearEvents(InsertEvents(Registry,
                                                  ResolvedOnly(scheduler_events),
                                                  clock),
                                     AllEvents(scheduler_events)).rows
                /\ \A j \in 1..Len(scheduler_events) :
                      scheduler_events[j].event \in Resolvable
                        => \E n \in DOMAIN db' :
                              /\ db'[n].method = scheduler_events[j].event
                              /\ db'[n].frequency = FrequencyOf(scheduler_events[j])]_vars

\* a sync has registered app.tasks.cleanup, declared after a method that does
\* not resolve and whose old row is left as it was
C20_Witness ==
    /\ lastSync.ran
    /\ lastSync.writes = 1
    /\ Len(scheduler_events) = 2
    /\ scheduler_events[1].event = MethodX
    /\ \E n \in DOMAIN db : db[n].method = MethodC /\ db[n].frequency = "All"
    /\ \E n \in DOMAIN db : db[n].method = MethodX /\ db[n].frequency = "Daily"

----------------------------------------------------------------------------
(* C21: Cron jobs hold a valid expression *)

\* C21: every Scheduled Job Type of frequency Cron holds a cron_format that
\* is not empty and that croniter accepts; a save with frequency Cron and an
\* empty or rejected cron_format throws and leaves the registry as it is, and
\* so does the insert or update of such a job by sync_jobs(), which leaves the
\* rows of the rejected method as they were.
C21_CronJobsHoldValidExpression ==
    [][LET CronRowsValid(rows) ==
               \A n \in DOMAIN rows :
                   rows[n].frequency = "Cron"
                     => (rows[n].cron_format # <<>> /\ CronValid(rows[n].cron_format))
           Rejected(hook) ==
               /\ hook.event \in Resolvable
               /\ FrequencyOf(hook) = "Cron"
               /\ (hook.cron_format = <<>> \/ ~CronValid(hook.cron_format))
       IN  /\ CronRowsValid(db)
           /\ CronRowsValid(db')
           /\ lastCall'.ret = "ValidationError" => db' = db
           /\ (SyncReturns \/ SyncRaises) =>
                 \A k \in 1..Len(scheduler_events) :
                     Rejected(scheduler_events[k])
                       => /\ lastSync'.raised
                          /\ \A n \in DOMAIN db' :
                                db'[n].method = scheduler_events[k].event
                                  => (n \in DOMAIN db /\ db'[n] = db[n])]_vars

\* a sync has thrown on a declared Cron job with a rejected expression, and
\* the job of that method is still the Hourly one it was
C21_Witness ==
    /\ lastSync.ran
    /\ lastSync.raised
    /\ \E k \in 1..Len(scheduler_events) :
         /\ scheduler_events[k].cron_format = CronBad
         /\ \E n \in DOMAIN db :
              /\ db[n].method = scheduler_events[k].event
              /\ db[n].frequency = "Hourly"

----------------------------------------------------------------------------
(* C22: two sync_jobs() calls insert the same method *)

\* both calls have ended, by returning or by an exception
BothFinished ==
    \A p \in Syncers : syncer.proc[p].pc \in {"done", "raised"}

\* C22: every row is stored under the name autoname gives it, so no two rows
\* share a name, and once two sync_jobs() calls that both passed the existence
\* check for a method before either inserted it have ended, the registry
\* holds exactly one row of that method.
C22_OneRowAfterInsertRace ==
    /\ \A n \in DOMAIN db : Autoname(db[n].method) = n
    /\ BothFinished =>
         \A m \in syncer.both : Cardinality(ExistsByMethod(db, m)) = 1

\* the same with hooks that declare no two methods of one name
C22_OneRowUnlessNamesake ==
    /\ \A n \in DOMAIN db : Autoname(db[n].method) = n
    /\ (/\ BothFinished
        /\ \A i, j \in 1..Len(scheduler_events) :
              Autoname(scheduler_events[i].event) = Autoname(scheduler_events[j].event)
                => scheduler_events[i].event = scheduler_events[j].event)
         => \A m \in syncer.both : Cardinality(ExistsByMethod(db, m)) = 1

----------------------------------------------------------------------------
(* C23: last_execution of a job name over runs and syncs *)

\* C23: once the row of a name holds a last_execution, no step of a run or of
\* sync_jobs() leaves the row of that name without one or with an earlier one.
C23_LastExecutionNeverGoesBack ==
    [][\A n \in DOMAIN db \cap DOMAIN db' :
           db[n].last_execution # NoTime
             => /\ db'[n].last_execution # NoTime
                /\ db'[n].last_execution >= db[n].last_execution]_vars

----------------------------------------------------------------------------
(* C24: logs of deleted jobs *)

----------------------------------------------------------------------------
(* C25: the Scheduled Job Log of a run *)

\* C25: the start of a run of a job with create_log set inserts one Scheduled
\* Job Log, of status Start, and no other step inserts one; the status of a
\* log changes only from Start to Complete or Failed, at the end of the run
\* that inserted it, and that end does change it; details are set only on a
\* log of status Failed.
C25_OneLogPerRun ==
    [][/\ \A w \in Workers :
            WorkerStep(w, "idle", "started") =>
                IF worker'[w].doc.create_log = 1
                THEN /\ worker'[w].log \notin DOMAIN logs
                     /\ DOMAIN logs' = DOMAIN logs \cup {worker'[w].log}
                     /\ logs'[worker'[w].log].status = "Start"
                     /\ logs'[worker'[w].log].scheduled_job_type
                          = Autoname(worker'[w].doc.method)
                ELSE logs' = logs
       /\ (\A w \in Workers : ~WorkerStep(w, "idle", "started"))
            => DOMAIN logs' \subseteq DOMAIN logs
       /\ \A id \in DOMAIN logs \cap DOMAIN logs' :
            logs'[id] # logs[id] =>
                /\ logs[id].status = "Start"
                /\ logs'[id].status \in {"Complete", "Failed"}
                /\ \E w \in Workers :
                     /\ worker[w].log = id
                     /\ worker[w].pc \in {"ran", "raised"}
                     /\ worker'[w].pc = "idle"
       /\ \A w \in Workers :
            worker[w].log \in DOMAIN logs =>
                /\ WorkerStep(w, "ran", "idle")
                     => logs'[worker[w].log].status = "Complete"
                /\ WorkerStep(w, "raised", "idle")
                     => logs'[worker[w].log].status = "Failed"
       /\ \A id \in DOMAIN logs' :
            logs'[id].details # "" => logs'[id].status = "Failed"]_vars

\* two runs with a log have ended, one Complete and one Failed, and each has
\* its one log
C25_Witness ==
    /\ runs = 2
    /\ Cardinality(DOMAIN logs) = 2
    /\ \E a, b \in DOMAIN logs :
         /\ logs[a].status = "Complete" /\ logs[a].details = ""
         /\ logs[b].status = "Failed" /\ logs[b].details # ""
    /\ \A w \in Workers : worker[w].pc = "idle"

----------------------------------------------------------------------------
(* C26: who writes last_execution *)

\* this step is update_scheduler_log of the run worker w makes
LoggerStep(w) ==
    \/ WorkerStep(w, "idle", "started")
    \/ WorkerStep(w, "ran", "idle")
    \/ WorkerStep(w, "raised", "idle")

\* the name of the job worker w runs in this step
NameOfStep(w) ==
    IF worker[w].pc = "idle" THEN Autoname(worker'[w].doc.method)
    ELSE NameOfRun(w)

\* the Scheduled Job Logs of the job of name n
LogsOf(logrows, n) ==
    [id \in {k \in DOMAIN logrows : logrows[k].scheduled_job_type = n}
       |-> logrows[id]]

\* enqueue() and is_event_due() write no row, whatever they return
DueCheckerWritesNothing ==
    CallReturns => db' = db /\ logs' = logs

\* last_execution of the job of a name changes only in update_scheduler_log
\* of a run of that job
OnlyOwnRunWritesLastExecution ==
    \A n \in DOMAIN db \cap DOMAIN db' :
        db'[n].last_execution # db[n].last_execution
          => \E w \in Workers : LoggerStep(w) /\ NameOfStep(w) = n

\* update_scheduler_log of a run leaves the other jobs and their logs alone
RunLeavesOtherJobs ==
    \A w \in Workers :
        LoggerStep(w) =>
            \A n \in DOMAIN db \ {NameOfStep(w)} :
                /\ n \in DOMAIN db'
                /\ db'[n] = db[n]
                /\ LogsOf(logs', n) = LogsOf(logs, n)

\* C26: enqueue() and is_event_due() never write the registry, whatever they
\* return; last_execution of a job changes only through update_scheduler_log
\* of a run of that job; and a run leaves last_execution and the Scheduled
\* Job Logs of every other job as they are.
C26_OnlyOwnRunWritesLastExecution ==
    [][/\ DueCheckerWritesNothing
       /\ OnlyOwnRunWritesLastExecution
       /\ RunLeavesOtherJobs]_vars

\* the same, but for the steps of sync_jobs()
C26_ButForSync ==
    [][/\ DueCheckerWritesNothing
       /\ ~(SyncReturns \/ SyncRaises) => OnlyOwnRunWritesLastExecution
       /\ RunLeavesOtherJobs]_vars

\* the third part with a job taken as the row of a method rather than as a
\* name: a run writes last_execution only to a row of the method it runs
C26_RunWritesOnlyItsMethod ==
    [][\A w \in Workers :
          LoggerStep(w) =>
              \A n \in DOMAIN db \cap DOMAIN db' :
                  db[n].method # (IF worker[w].pc = "idle"
                                  THEN worker'[w].doc.method
                                  ELSE worker[w].doc.method)
                    => db'[n].last_execution = db[n].last_execution]_vars

====
